---- MODULE Spec2Model ----
(***************************************************************************)
(* Model of the shoplinno backend: the Express API router in its two       *)
(* variants (src/index.js and src/unnamed/part_000), the Supabase client   *)
(* it calls, and the ECMAScript Date arithmetic behind the subscription    *)
(* term.                                                                   *)
(***************************************************************************)
EXTENDS Integers, Sequences, FiniteSets, TLC

\* ------------------------------------------------------------------------
\* Bounds of the model
\* ------------------------------------------------------------------------
\* Number of HTTP requests a behaviour of Spec serves (concurrently).
NumRequests == 2
\* First year and number of years of the calendar SpecCal draws "now" from.
FirstYear == 2023
NumYears == 2
\* Longest e-mail string (in characters) POST /contact is given.
MaxEmailLen == 5

\* ------------------------------------------------------------------------
\* JavaScript values: undefined, or a string (the tuple of its UTF-16 code
\* units)
\* ------------------------------------------------------------------------
Undefined == [t |-> "undefined", s |-> <<>>]
Str(cs) == [t |-> "string", s |-> cs]

\* The printable ASCII characters in the order of their code units: 32..95,
\* and 97..126.
Printable32 ==
  <<" ", "!", "\"", "#", "$", "%", "&", "'", "(", ")", "*", "+", ",", "-", ".", "/",
    "0", "1", "2", "3", "4", "5", "6", "7", "8", "9", ":", ";", "<", "=", ">", "?",
    "@", "A", "B", "C", "D", "E", "F", "G", "H", "I", "J", "K", "L", "M", "N", "O",
    "P", "Q", "R", "S", "T", "U", "V", "W", "X", "Y", "Z", "[", "\\", "]", "^", "_">>
Printable97 ==
  <<"a", "b", "c", "d", "e", "f", "g", "h", "i", "j", "k", "l", "m", "n", "o",
    "p", "q", "r", "s", "t", "u", "v", "w", "x", "y", "z", "{", "|", "}", "~">>

\* The code unit of a printable ASCII character
CodeUnit(c) ==
  IF \E i \in 1..Len(Printable32) : Printable32[i] = c
  THEN 31 + (CHOOSE i \in 1..Len(Printable32) : Printable32[i] = c)
  ELSE 96 + (CHOOSE i \in 1..Len(Printable97) : Printable97[i] = c)

\* The string literal made of the given printable characters
Lit(chars) == Str([i \in 1..Len(chars) |-> CodeUnit(chars[i])])

\* Number.prototype.toString(): the decimal digits of n >= 0
RECURSIVE Digits(_)
Digits(n) == IF n < 10 THEN <<48 + n>> ELSE Digits(n \div 10) \o <<48 + (n % 10)>>

\* ToBoolean on undefined / string: undefined and "" are falsy.
Truthy(v) == v.t = "string" /\ v.s # <<>>

\* a || b
OrElse(a, b) == IF Truthy(a) THEN a ELSE b

\* ------------------------------------------------------------------------
\* ECMAScript Date (ECMA-262, "Date Objects").  A time value t (milliseconds
\* since the epoch) is kept as the pair <<Day(t), TimeWithinDay(t)>>, which
\* determines it: t = Day(t) * msPerDay + TimeWithinDay(t).
\* ------------------------------------------------------------------------
msPerDay == 86400000
msPerHour == 3600000
msPerMinute == 60000
msPerSecond == 1000

\* floor(a / b) for b > 0 (TLA+ \div already floors)
Floor(a, b) == a \div b

MakeDate(day, time) == <<day + Floor(time, msPerDay), time % msPerDay>>
Day(t) == t[1]
TimeWithinDay(t) == t[2]

DaysInYear(y) ==
  IF y % 4 # 0 THEN 365
  ELSE IF y % 100 # 0 THEN 366
  ELSE IF y % 400 # 0 THEN 365
  ELSE 366

DayFromYear(y) ==
  365 * (y - 1970) + Floor(y - 1969, 4) - Floor(y - 1901, 100) + Floor(y - 1601, 400)

\* The largest year whose first day is not after t (for t not before 1970;
\* a year has 365 or 366 days, which brackets the search).
YearFromTime(t) ==
  CHOOSE y \in (1970 + Floor(Day(t), 366))..(1970 + Floor(Day(t), 365)) :
    DayFromYear(y) <= Day(t) /\ Day(t) < DayFromYear(y + 1)

InLeapYear(t) == IF DaysInYear(YearFromTime(t)) = 366 THEN 1 ELSE 0

DayWithinYear(t) == Day(t) - DayFromYear(YearFromTime(t))

\* Month number 0..11
MonthFromTime(t) ==
  LET d == DayWithinYear(t)
      l == InLeapYear(t)
  IN  IF d < 31 THEN 0
      ELSE IF d < 59 + l THEN 1
      ELSE IF d < 90 + l THEN 2
      ELSE IF d < 120 + l THEN 3
      ELSE IF d < 151 + l THEN 4
      ELSE IF d < 181 + l THEN 5
      ELSE IF d < 212 + l THEN 6
      ELSE IF d < 243 + l THEN 7
      ELSE IF d < 273 + l THEN 8
      ELSE IF d < 304 + l THEN 9
      ELSE IF d < 334 + l THEN 10
      ELSE 11

\* Day of the month 1..31
DateFromTime(t) ==
  LET d == DayWithinYear(t)
      l == InLeapYear(t)
      m == MonthFromTime(t)
  IN  IF m = 0 THEN d + 1
      ELSE IF m = 1 THEN d - 30
      ELSE IF m = 2 THEN d - 58 - l
      ELSE IF m = 3 THEN d - 89 - l
      ELSE IF m = 4 THEN d - 119 - l
      ELSE IF m = 5 THEN d - 150 - l
      ELSE IF m = 6 THEN d - 180 - l
      ELSE IF m = 7 THEN d - 211 - l
      ELSE IF m = 8 THEN d - 242 - l
      ELSE IF m = 9 THEN d - 272 - l
      ELSE IF m = 10 THEN d - 303 - l
      ELSE d - 333 - l

HourFromTime(t) == Floor(TimeWithinDay(t), msPerHour) % 24
MinFromTime(t) == Floor(TimeWithinDay(t), msPerMinute) % 60
SecFromTime(t) == Floor(TimeWithinDay(t), msPerSecond) % 60
msFromTime(t) == TimeWithinDay(t) % msPerSecond

\* Days before the first of month mn (0..11) in a year of the given leapness.
DaysBeforeMonth(mn, leap) ==
  LET tab == <<0, 31, 59, 90, 120, 151, 181, 212, 243, 273, 304, 334>>
  IN  tab[mn + 1] + (IF mn >= 2 THEN leap ELSE 0)

\* Mutant of MakeDay: a date past the end of the month is clamped to the
\* month's last day instead of running into the following month.
MakeDayClamped(year, month, date) ==
  LET ym == year + Floor(month, 12)
      mn == month % 12
      leap == IF DaysInYear(ym) = 366 THEN 1 ELSE 0
      dim == IF mn = 11 THEN 31
             ELSE DaysBeforeMonth(mn + 1, leap) - DaysBeforeMonth(mn, leap)
      clamped == IF date > dim THEN dim ELSE date
  IN  DayFromYear(ym) + DaysBeforeMonth(mn, leap) + clamped - 1

\* MakeDay(year, month, date): the day number of the first of the month
\* (year + floor(month / 12), month mod 12), plus date - 1.  The date is not
\* clamped: days past the end of the month run into the following month.
MakeDay(year, month, date) ==
  LET ym == year + Floor(month, 12)
      mn == month % 12
      leap == IF DaysInYear(ym) = 366 THEN 1 ELSE 0
  IN  DayFromYear(ym) + DaysBeforeMonth(mn, leap) + date - 1

\* LocalTime(t) = t + LocalTZA and UTC(t) = t - LocalTZA, for a zone with a
\* fixed offset tza (milliseconds, no daylight saving).
LocalTime(t, tza) == MakeDate(Day(t), TimeWithinDay(t) + tza)
UTC(t, tza) == MakeDate(Day(t), TimeWithinDay(t) - tza)

\* Date.prototype.getMonth / getFullYear
getMonth(t, tza) == MonthFromTime(LocalTime(t, tza))
getFullYear(t, tza) == YearFromTime(LocalTime(t, tza))

\* Date.prototype.setMonth(month)
setMonth(t, month, tza) ==
  LET lt == LocalTime(t, tza)
      newDate == MakeDate(MakeDay(YearFromTime(lt), month, DateFromTime(lt)),
                          TimeWithinDay(lt))
  IN  UTC(newDate, tza)

\* Date.prototype.setFullYear(year)
setFullYear(t, year, tza) ==
  LET lt == LocalTime(t, tza)
      newDate == MakeDate(MakeDay(year, MonthFromTime(lt), DateFromTime(lt)),
                          TimeWithinDay(lt))
  IN  UTC(newDate, tza)

\* Date.prototype.toISOString: YYYY-MM-DDTHH:mm:ss.sssZ, kept as its fields.
toISOString(t) ==
  [Y |-> YearFromTime(t), M |-> MonthFromTime(t) + 1, D |-> DateFromTime(t),
   h |-> HourFromTime(t), m |-> MinFromTime(t), s |-> SecFromTime(t),
   ms |-> msFromTime(t)]


\* start_date < end_date on ISO strings of equal width: field by field.
IsoKey(d) == <<d.Y, d.M, d.D, d.h, d.m, d.s, d.ms>>

RECURSIVE TupleLess(_, _, _)
TupleLess(a, b, i) ==
  IF i > Len(a) THEN FALSE
  ELSE IF a[i] # b[i] THEN a[i] < b[i]
  ELSE TupleLess(a, b, i + 1)

IsoLess(a, b) == TupleLess(IsoKey(a), IsoKey(b), 1)

\* ------------------------------------------------------------------------
\* Strings the handlers compare against or send
\* ------------------------------------------------------------------------
monthly == Lit(<<"m", "o", "n", "t", "h", "l", "y">>)
twoMonths == Lit(<<"2", "m", "o", "n", "t", "h", "s">>)
annual == Lit(<<"a", "n", "n", "u", "a", "l">>)
NA == Lit(<<"N", "/", "A">>)

\* ------------------------------------------------------------------------
\* Subscription term
\* ------------------------------------------------------------------------
\* src/index.js: if / else-if chain, the final else is the monthly rule.
ApiRouterEndDate(plan_id, startDate, tza) ==
  IF plan_id = monthly THEN setMonth(startDate, getMonth(startDate, tza) + 1, tza)
  ELSE IF plan_id = twoMonths THEN setMonth(startDate, getMonth(startDate, tza) + 2, tza)
  ELSE IF plan_id = annual THEN setFullYear(startDate, getFullYear(startDate, tza) + 1, tza)
  ELSE setMonth(startDate, getMonth(startDate, tza) + 1, tza)

\* src/unnamed/part_000: switch (plan_id); the default case answers 400.
ApiPlanKnown(plan_id) == plan_id \in {monthly, twoMonths, annual}

ApiEndDate(plan_id, startDate, tza) ==
  IF plan_id = monthly THEN setMonth(startDate, getMonth(startDate, tza) + 1, tza)
  ELSE IF plan_id = twoMonths THEN setMonth(startDate, getMonth(startDate, tza) + 2, tza)
  ELSE setFullYear(startDate, getFullYear(startDate, tza) + 1, tza)

\* ------------------------------------------------------------------------
\* Validation
\* ------------------------------------------------------------------------
\* customer_info is [def, fullname, email, phone]; def = FALSE is undefined.
NoCustomerInfo == [def |-> FALSE, fullname |-> Undefined, email |-> Undefined,
                   phone |-> Undefined]
CustomerInfo(fullname, email, phone) ==
  [def |-> TRUE, fullname |-> fullname, email |-> email, phone |-> phone]

\* customer_info?.field
OptField(ci, f) == IF ci.def THEN ci[f] ELSE Undefined

\* src/index.js:145  if (!customer_info)
ApiRouterSubscribeInvalid(body) == ~body.customer_info.def

\* part_000:73  if (!plan_id || !customer_info?.fullname || !customer_info?.email)
ApiSubscribeInvalid(body) ==
  \/ ~Truthy(body.plan_id)
  \/ ~Truthy(OptField(body.customer_info, "fullname"))
  \/ ~Truthy(OptField(body.customer_info, "email"))

\* if (!name || !email || !message), the same in both variants
ContactInvalid(body) ==
  ~Truthy(body.name) \/ ~Truthy(body.email) \/ ~Truthy(body.message)

CommercialAt == CodeUnit("@")
FullStop == CodeUnit(".")

\* \s of a JavaScript regular expression: WhiteSpace (TAB, VT, FF, SP, NBSP,
\* ZWNBSP U+FEFF and the space separators U+1680, U+2000..U+200A, U+202F,
\* U+205F, U+3000) and LineTerminator (LF, CR, U+2028, U+2029), as code units.
IsSpace(c) ==
  \/ c \in {9, 10, 11, 12, 13, 32, 160, 5760, 8232, 8233, 8239, 8287, 12288, 65279}
  \/ c \in 8192..8202
\* [^\s@]
NotSpaceAt(c) == ~IsSpace(c) /\ c # CommercialAt
\* [^\s@]+ matches exactly cs[i..j]
ClassPlus(cs, i, j) == i <= j /\ \A k \in i..j : NotSpaceAt(cs[k])

\* Mutant of emailRegexTest: the pattern /^[^\s@]+@[^\s@]+$/, which asks for
\* no "." after the "@".
emailRegexTestNoDot(email) ==
  LET cs == email.s
      n == Len(cs)
  IN  \E a \in 1..n :
        /\ cs[a] = CommercialAt
        /\ ClassPlus(cs, 1, a - 1)
        /\ ClassPlus(cs, a + 1, n)

\* /^[^\s@]+@[^\s@]+\.[^\s@]+$/.test(email)
emailRegexTest(email) ==
  LET cs == email.s
      n == Len(cs)
  IN  \E a \in 1..n : \E d \in 1..n :
        /\ cs[a] = CommercialAt
        /\ cs[d] = FullStop
        /\ ClassPlus(cs, 1, a - 1)
        /\ ClassPlus(cs, a + 1, d - 1)
        /\ ClassPlus(cs, d + 1, n)

\* ------------------------------------------------------------------------
\* State
\* ------------------------------------------------------------------------
VARIABLES
  variant,           \* which of the two server files is deployed
  tza,               \* offset of the server's time zone, in milliseconds
  req,               \* per request: the handler's locals, position and response
  plans,             \* table "plans" (read only)
  subscriptions,     \* table "subscriptions"
  messages,          \* table "messages"
  contact_messages,  \* table "contact_messages"
  uuids              \* number of identifiers crypto.randomUUID has handed out

vars == <<variant, tza, req, plans, subscriptions, messages, contact_messages, uuids>>

Requests == 1..NumRequests

IndexJs == "src/index.js"
Part000 == "src/unnamed/part_000"

\* The error a failing database operation carries.
DbErrorMessage == "duplicate key value violates unique constraint"
\* How one database operation ends: the client resolves with data, resolves
\* with { error }, or rejects (throws).
DbOutcomes == {"ok", "error", "throw"}

NoBody ==
  [user_id |-> Undefined, plan_id |-> Undefined, payment_method |-> Undefined,
   customer_info |-> NoCustomerInfo,
   name |-> Undefined, email |-> Undefined, message |-> Undefined]

NoResponse == [status |-> 0, success |-> "absent", error |-> "absent", data |-> <<>>]

\* res.status(code).json({ success, error }); "absent" is a key the body lacks.
Json(status, success, error) ==
  [status |-> status, success |-> success, error |-> error, data |-> <<>>]
JsonData(key, data) ==
  [status |-> 200, success |-> "true", error |-> "absent", data |-> <<key, data>>]

IdleRequest ==
  [route |-> "none", pc |-> "idle", body |-> NoBody,
   startDate |-> <<0, 0>>, endDate |-> <<0, 0>>, createdAt |-> <<0, 0>>,
   user_id |-> Undefined,
   subError |-> FALSE, calls |-> <<>>, responses |-> 0, res |-> NoResponse]

\* The handler issues an operation on a table: it is pending until it ends.
Issue(calls, table) == Append(calls, [table |-> table, result |-> "pending"])
\* The pending (last) operation ends with the given outcome.
Settle(calls, outcome) == [calls EXCEPT ![Len(calls)].result = outcome]

\* The handler sends its response and ends.
Respond(r, calls, response) ==
  req' = [req EXCEPT ![r].pc = "done", ![r].calls = calls,
                     ![r].responses = @ + 1, ![r].res = response]

\* Every order in which the rows of a table can be listed
RECURSIVE Orderings(_)
Orderings(rows) ==
  IF rows = {} THEN {<<>>}
  ELSE UNION { { <<x>> \o p : p \in Orderings(rows \ {x}) } : x \in rows }

\* .order("price", { ascending: true }) on the rows of "plans": the listings
\* in which no row comes before a cheaper one (rows of equal price in any
\* order).
OrderByPrice(rows) ==
  { p \in Orderings(rows) :
      \A i \in 1..Len(p) : \A j \in 1..Len(p) : i < j => p[i].price <= p[j].price }

\* .order("created_at", { ascending: false }) on the rows of "messages": the
\* listings in which no row comes before one created later.  A row inserted
\* without created_at gets it from the store: its place is the store's.
OrderByCreatedAtDesc(rows) ==
  { p \in Orderings(rows) :
      \A i \in 1..Len(p) : \A j \in 1..Len(p) :
        (i < j /\ p[i].created_at.Y # 0 /\ p[j].created_at.Y # 0)
          => ~IsoLess(p[i].created_at, p[j].created_at) }

PlanRows ==
  { [id |-> 1, name |-> "annual", price |-> 60],
    [id |-> 2, name |-> "monthly", price |-> 10],
    [id |-> 3, name |-> "2months", price |-> 18] }

\* crypto.randomUUID(): the n-th identifier handed out
RandomUUID(n) == Str(Lit(<<"u", "u", "i", "d", "-">>).s \o Digits(n))

\* ------------------------------------------------------------------------
\* Rows the handlers insert.  Template strings are kept as the tuple of
\* their interpolated values; req is the request that wrote the row.
\* ------------------------------------------------------------------------
SubscriptionRow(r, user_id, plan_id, startDate, endDate) ==
  [user_id |-> user_id, plan_id |-> plan_id,
   start_date |-> toISOString(startDate), end_date |-> toISOString(endDate),
   status |-> "active", req |-> r]

NoDate == [Y |-> 0, M |-> 0, D |-> 0, h |-> 0, m |-> 0, s |-> 0, ms |-> 0]

ApiRouterSubscribeMessage(r, user_id, body) ==
  [user_id |-> user_id,
   subject |-> <<"New IPTV Subscription - ", body.customer_info.email>>,
   message |-> <<body.customer_info.fullname, body.customer_info.email,
                 OrElse(body.customer_info.phone, NA), body.plan_id,
                 body.payment_method>>,
   type |-> "absent", created_at |-> NoDate, req |-> r]

ApiSubscribeMessage(r, user_id, body) ==
  [user_id |-> user_id,
   subject |-> <<"New IPTV Subscription">>,
   message |-> <<body.customer_info.fullname, body.customer_info.email,
                 OrElse(body.customer_info.phone, NA), body.plan_id>>,
   type |-> "absent", created_at |-> NoDate, req |-> r]

\* Date.now() in decimal.  The number is Day * 86400000 + TimeWithinDay =
\* high * 100000 + low: below 100000 its digits are those of low, otherwise
\* those of high followed by the five digits of low.
DateNowDigits(now) ==
  LET high == Day(now) * 864 + TimeWithinDay(now) \div 100000
      low == TimeWithinDay(now) % 100000
  IN  IF high = 0 THEN Digits(low)
      ELSE Digits(high) \o Tail(Digits(100000 + low))

\* `contact_${Date.now()}_${Math.random().toString(36).substr(2, 9)}`
ContactUserId(now, rnd) ==
  Str(Lit(<<"c", "o", "n", "t", "a", "c", "t", "_">>).s \o DateNowDigits(now)
      \o Lit(<<"_">>).s \o rnd.s)

ApiRouterContactMessage(r, userId, body, createdAt) ==
  [user_id |-> userId,
   subject |-> <<"Contact Form: ", body.name>>,
   message |-> <<body.name, body.email, body.message>>,
   type |-> "contact_form", created_at |-> toISOString(createdAt), req |-> r]

ContactRow(r, body) ==
  [name |-> body.name, email |-> body.email, message |-> body.message, req |-> r]

\* ------------------------------------------------------------------------
\* GET /health (both variants)
\* ------------------------------------------------------------------------
Health(r, now) ==
  /\ req[r].pc = "idle"
  /\ req' = [req EXCEPT ![r].route = "health", ![r].pc = "done",
                        ![r].responses = @ + 1,
                        ![r].res = [status |-> 200, success |-> "absent",
                                    error |-> "absent",
                                    data |-> <<"OK", toISOString(now)>>]]
  /\ UNCHANGED <<variant, tza, plans, subscriptions, messages, contact_messages, uuids>>

\* ------------------------------------------------------------------------
\* GET /plans
\* ------------------------------------------------------------------------
ApiRouterPlans(r) ==
  /\ variant = IndexJs
  /\ req[r].pc = "idle"
  /\ req' = [req EXCEPT ![r].route = "plans", ![r].pc = "await_select",
                        ![r].calls = Issue(@, "plans")]
  /\ UNCHANGED <<variant, tza, plans, subscriptions, messages, contact_messages, uuids>>

ApiRouterPlansReply(r, outcome) ==
  /\ variant = IndexJs
  /\ req[r].route = "plans" /\ req[r].pc = "await_select"
  /\ LET calls == Settle(req[r].calls, outcome)
     IN  IF outcome = "throw"
         THEN Respond(r, calls, Json(500, "absent", DbErrorMessage))
         ELSE IF outcome = "error"
         THEN Respond(r, calls, Json(500, "absent", "Could not fetch plans."))
         ELSE \E data \in OrderByPrice(plans) :
                Respond(r, calls, JsonData("plans", data))
  /\ UNCHANGED <<variant, tza, plans, subscriptions, messages, contact_messages, uuids>>

ApiPlans(r) ==
  /\ variant = Part000
  /\ req[r].pc = "idle"
  /\ req' = [req EXCEPT ![r].route = "plans", ![r].pc = "await_select",
                        ![r].calls = Issue(@, "plans")]
  /\ UNCHANGED <<variant, tza, plans, subscriptions, messages, contact_messages, uuids>>

ApiPlansReply(r, outcome) ==
  /\ variant = Part000
  /\ req[r].route = "plans" /\ req[r].pc = "await_select"
  /\ LET calls == Settle(req[r].calls, outcome)
     IN  IF outcome # "ok"
         THEN Respond(r, calls, Json(500, "false", "Unable to fetch plans"))
         ELSE \E data \in OrderByPrice(plans) :
                Respond(r, calls, JsonData("plans", data))
  /\ UNCHANGED <<variant, tza, plans, subscriptions, messages, contact_messages, uuids>>

\* ------------------------------------------------------------------------
\* GET /messages (src/index.js only)
\* ------------------------------------------------------------------------
ApiRouterMessages(r) ==
  /\ variant = IndexJs
  /\ req[r].pc = "idle"
  /\ req' = [req EXCEPT ![r].route = "messages", ![r].pc = "await_select",
                        ![r].calls = Issue(@, "messages")]
  /\ UNCHANGED <<variant, tza, plans, subscriptions, messages, contact_messages, uuids>>

\* The rows of "messages" whose insert a request has sent, whatever became
\* of it (answered, refused, or still on its way)
ApiRouterMessagesSent ==
  { ApiRouterContactMessage(q, req[q].user_id, req[q].body, req[q].createdAt) :
      q \in {q \in Requests : req[q].route = "contact" /\ req[q].calls # <<>>} }
  \cup
  { ApiRouterSubscribeMessage(q, req[q].user_id, req[q].body) :
      q \in {q \in Requests : req[q].route = "subscribe" /\ Len(req[q].calls) = 2} }

\* What the store can answer a select on "messages" with: it ran the select
\* at some moment after it was sent, so the listing may lack rows stored
\* since, and may have rows of inserts it had run and not yet answered, or
\* went on to refuse.
ApiRouterMessagesSelected ==
  UNION { OrderByCreatedAtDesc(rows) : rows \in SUBSET ApiRouterMessagesSent }

\* data is what the select returned ({ data: messages, error }); the handler
\* sends it as it is.
ApiRouterMessagesReply(r, outcome, data) ==
  /\ variant = IndexJs
  /\ req[r].route = "messages" /\ req[r].pc = "await_select"
  /\ LET calls == Settle(req[r].calls, outcome)
     IN  IF outcome = "throw"
         THEN Respond(r, calls, Json(500, "absent", DbErrorMessage))
         ELSE IF outcome = "error"
         THEN Respond(r, calls, Json(500, "absent", "Could not fetch messages."))
         ELSE Respond(r, calls, JsonData("messages", data))
  /\ UNCHANGED <<variant, tza, plans, subscriptions, messages, contact_messages, uuids>>

\* ------------------------------------------------------------------------
\* The store: an insert that succeeds adds the row; nothing is ever removed.
\* ------------------------------------------------------------------------
\* Mutant of InsertRow: the insert replaces the table's rows.
InsertRowOverwrite(table, row) == {row}

InsertRow(table, row) == table \cup {row}

\* ------------------------------------------------------------------------
\* POST /subscribe, src/index.js
\* ------------------------------------------------------------------------
\* Mutant of ApiRouterInsertFailed: if (subError && msgError)
ApiRouterInsertFailedBoth(subError, msgError) == subError /\ msgError

\* line 171: if (subError || msgError)
ApiRouterInsertFailed(subError, msgError) == subError \/ msgError

\* Up to the first await: validation, term, subscriptions insert issued.
\* Mutant of ApiRouterSubscribe: endDate starts from a second reading of the
\* clock (new Date()) instead of from startDate (new Date(startDate)).
ApiRouterSubscribeSecondClock(r, body, now) ==
  /\ variant = IndexJs
  /\ req[r].pc = "idle"
  /\ IF ApiRouterSubscribeInvalid(body)
     THEN req' = [req EXCEPT ![r].route = "subscribe", ![r].body = body,
                             ![r].pc = "done", ![r].responses = @ + 1,
                             ![r].res = Json(400, "absent", "Customer info missing")]
     ELSE \E later \in {now, MakeDate(Day(now), TimeWithinDay(now) + 1)} :
            req' = [req EXCEPT ![r].route = "subscribe", ![r].body = body,
                               ![r].startDate = now,
                               ![r].endDate = ApiRouterEndDate(body.plan_id, later, tza),
                               ![r].user_id = body.user_id,
                               ![r].pc = "await_sub",
                               ![r].calls = Issue(@, "subscriptions")]
  /\ UNCHANGED <<variant, tza, plans, subscriptions, messages, contact_messages, uuids>>

ApiRouterSubscribe(r, body, now) ==
  /\ variant = IndexJs
  /\ req[r].pc = "idle"
  /\ IF ApiRouterSubscribeInvalid(body)
     THEN req' = [req EXCEPT ![r].route = "subscribe", ![r].body = body,
                             ![r].pc = "done", ![r].responses = @ + 1,
                             ![r].res = Json(400, "absent", "Customer info missing")]
     ELSE req' = [req EXCEPT ![r].route = "subscribe", ![r].body = body,
                             ![r].startDate = now,
                             ![r].endDate = ApiRouterEndDate(body.plan_id, now, tza),
                             ![r].user_id = body.user_id,
                             ![r].pc = "await_sub",
                             ![r].calls = Issue(@, "subscriptions")]
  /\ UNCHANGED <<variant, tza, plans, subscriptions, messages, contact_messages, uuids>>

\* The subscriptions insert ends; unless it threw, the messages insert is
\* issued whatever subError is.
ApiRouterSubscribeSubReply(r, outcome) ==
  /\ variant = IndexJs
  /\ req[r].route = "subscribe" /\ req[r].pc = "await_sub"
  /\ subscriptions' =
       IF outcome = "ok"
       THEN InsertRow(subscriptions,
                      SubscriptionRow(r, req[r].user_id, req[r].body.plan_id,
                                      req[r].startDate, req[r].endDate))
       ELSE subscriptions
  /\ LET calls == Settle(req[r].calls, outcome)
     IN  IF outcome = "throw"
         THEN Respond(r, calls, Json(500, "absent", DbErrorMessage))
         ELSE req' = [req EXCEPT ![r].subError = (outcome = "error"),
                                 ![r].pc = "await_msg",
                                 ![r].calls = Issue(calls, "messages")]
  /\ UNCHANGED <<variant, tza, plans, messages, contact_messages, uuids>>

\* The messages insert ends; the two errors are looked at only now.
ApiRouterSubscribeMsgReply(r, outcome) ==
  /\ variant = IndexJs
  /\ req[r].route = "subscribe" /\ req[r].pc = "await_msg"
  /\ messages' =
       IF outcome = "ok"
       THEN InsertRow(messages, ApiRouterSubscribeMessage(r, req[r].user_id, req[r].body))
       ELSE messages
  /\ LET calls == Settle(req[r].calls, outcome)
     IN  IF outcome = "throw"
         THEN Respond(r, calls, Json(500, "absent", DbErrorMessage))
         ELSE IF ApiRouterInsertFailed(req[r].subError, outcome = "error")
         THEN Respond(r, calls, Json(500, "absent", "Failed to save data to database."))
         ELSE Respond(r, calls, [Json(200, "true", "absent") EXCEPT
                                   !.data = <<"saved_to_db", "true">>])
  /\ UNCHANGED <<variant, tza, plans, subscriptions, contact_messages, uuids>>

\* ------------------------------------------------------------------------
\* POST /subscribe, src/unnamed/part_000
\* ------------------------------------------------------------------------
\* lines 112 and 127: if (error) throw error, after an await that may reject
ApiInsertFailed(outcome) == outcome # "ok"

ApiSubscribe(r, body, now) ==
  /\ variant = Part000
  /\ req[r].pc = "idle"
  /\ IF ApiSubscribeInvalid(body)
     THEN /\ req' = [req EXCEPT ![r].route = "subscribe", ![r].body = body,
                                ![r].pc = "done", ![r].responses = @ + 1,
                                ![r].res = Json(400, "false", "Missing required fields")]
          /\ UNCHANGED uuids
     ELSE IF ~ApiPlanKnown(body.plan_id)
     THEN /\ req' = [req EXCEPT ![r].route = "subscribe", ![r].body = body,
                                ![r].pc = "done", ![r].responses = @ + 1,
                                ![r].res = Json(400, "false", "Invalid plan")]
          /\ UNCHANGED uuids
     ELSE /\ req' = [req EXCEPT ![r].route = "subscribe", ![r].body = body,
                                ![r].startDate = now,
                                ![r].endDate = ApiEndDate(body.plan_id, now, tza),
                                ![r].user_id = RandomUUID(uuids + 1),
                                ![r].pc = "await_sub",
                                ![r].calls = Issue(@, "subscriptions")]
          /\ uuids' = uuids + 1
  /\ UNCHANGED <<variant, tza, plans, subscriptions, messages, contact_messages>>

ApiSubscribeSubReply(r, outcome) ==
  /\ variant = Part000
  /\ req[r].route = "subscribe" /\ req[r].pc = "await_sub"
  /\ subscriptions' =
       IF outcome = "ok"
       THEN InsertRow(subscriptions,
                      SubscriptionRow(r, req[r].user_id, req[r].body.plan_id,
                                      req[r].startDate, req[r].endDate))
       ELSE subscriptions
  /\ LET calls == Settle(req[r].calls, outcome)
     IN  IF ApiInsertFailed(outcome)
         THEN Respond(r, calls, Json(500, "false", "Subscription failed"))
         ELSE req' = [req EXCEPT ![r].pc = "await_msg",
                                 ![r].calls = Issue(calls, "messages")]
  /\ UNCHANGED <<variant, tza, plans, messages, contact_messages, uuids>>

ApiSubscribeMsgReply(r, outcome) ==
  /\ variant = Part000
  /\ req[r].route = "subscribe" /\ req[r].pc = "await_msg"
  /\ messages' =
       IF outcome = "ok"
       THEN InsertRow(messages, ApiSubscribeMessage(r, req[r].user_id, req[r].body))
       ELSE messages
  /\ LET calls == Settle(req[r].calls, outcome)
     IN  IF ApiInsertFailed(outcome)
         THEN Respond(r, calls, Json(500, "false", "Subscription failed"))
         ELSE Respond(r, calls,
                      [Json(200, "true", "absent") EXCEPT
                         !.data = <<req[r].body.plan_id, toISOString(req[r].startDate),
                                    toISOString(req[r].endDate)>>])
  /\ UNCHANGED <<variant, tza, plans, subscriptions, contact_messages, uuids>>

\* ------------------------------------------------------------------------
\* POST /contact, src/index.js (checks the e-mail format)
\* ------------------------------------------------------------------------
\* now is the clock at line 96 (Date.now()), createdAt the clock at line 106:
\* two reads of the wall clock, which nothing orders.
ApiRouterContact(r, body, now, createdAt, rnd) ==
  /\ variant = IndexJs
  /\ req[r].pc = "idle"
  /\ IF ContactInvalid(body)
     THEN req' = [req EXCEPT ![r].route = "contact", ![r].body = body,
                             ![r].pc = "done", ![r].responses = @ + 1,
                             ![r].res = Json(400, "false",
                                  "All fields are required: name, email, message")]
     ELSE IF ~emailRegexTest(body.email)
     THEN req' = [req EXCEPT ![r].route = "contact", ![r].body = body,
                             ![r].pc = "done", ![r].responses = @ + 1,
                             ![r].res = Json(400, "false", "Invalid email format")]
     ELSE req' = [req EXCEPT ![r].route = "contact", ![r].body = body,
                             ![r].startDate = now,
                             ![r].createdAt = createdAt,
                             ![r].user_id = ContactUserId(now, rnd),
                             ![r].pc = "await_contact",
                             ![r].calls = Issue(@, "messages")]
  /\ UNCHANGED <<variant, tza, plans, subscriptions, messages, contact_messages, uuids>>

ApiRouterContactReply(r, outcome, now) ==
  /\ variant = IndexJs
  /\ req[r].route = "contact" /\ req[r].pc = "await_contact"
  /\ messages' =
       IF outcome = "ok"
       THEN InsertRow(messages,
                      ApiRouterContactMessage(r, req[r].user_id, req[r].body,
                                              req[r].createdAt))
       ELSE messages
  /\ LET calls == Settle(req[r].calls, outcome)
     IN  IF outcome = "throw"
         THEN Respond(r, calls,
                      Json(500, "false", "Server error processing contact form"))
         ELSE IF outcome = "error"
         THEN Respond(r, calls,
                      Json(500, "false", "Failed to save contact message to database"))
         ELSE Respond(r, calls,
                      [Json(200, "true", "absent") EXCEPT
                         !.data = <<req[r].body.name, req[r].body.email,
                                    req[r].user_id, toISOString(now)>>])
  /\ UNCHANGED <<variant, tza, plans, subscriptions, contact_messages, uuids>>

\* ------------------------------------------------------------------------
\* POST /contact, src/unnamed/part_000 (no check of the e-mail format)
\* ------------------------------------------------------------------------
ApiContact(r, body) ==
  /\ variant = Part000
  /\ req[r].pc = "idle"
  /\ IF ContactInvalid(body)
     THEN req' = [req EXCEPT ![r].route = "contact", ![r].body = body,
                             ![r].pc = "done", ![r].responses = @ + 1,
                             ![r].res = Json(400, "false", "Missing fields")]
     ELSE req' = [req EXCEPT ![r].route = "contact", ![r].body = body,
                             ![r].pc = "await_contact",
                             ![r].calls = Issue(@, "contact_messages")]
  /\ UNCHANGED <<variant, tza, plans, subscriptions, messages, contact_messages, uuids>>

ApiContactReply(r, outcome) ==
  /\ variant = Part000
  /\ req[r].route = "contact" /\ req[r].pc = "await_contact"
  /\ contact_messages' =
       IF outcome = "ok"
       THEN InsertRow(contact_messages, ContactRow(r, req[r].body))
       ELSE contact_messages
  /\ LET calls == Settle(req[r].calls, outcome)
     IN  IF ApiInsertFailed(outcome)
         THEN Respond(r, calls, Json(500, "false", "Unable to send message"))
         ELSE Respond(r, calls, Json(200, "true", "absent"))
  /\ UNCHANGED <<variant, tza, plans, subscriptions, messages, uuids>>

\* ------------------------------------------------------------------------
\* Inputs
\* ------------------------------------------------------------------------
\* The instant of local calendar date y-m-d, ms milliseconds into the day.
Instant(y, m, d, ms) == <<MakeDay(y, m - 1, d), ms>>

\* Offsets of the server's zone: UTC, UTC+1, UTC-5.
TZOffsets == {0, msPerHour, -5 * msPerHour}

u1 == Lit(<<"u", "1">>)
weekly == Lit(<<"w", "e", "e", "k", "l", "y">>)
Alice == Lit(<<"A">>)
aliceMail == Lit(<<"a", "@", "b", ".", "c">>)
notAnEmail == Lit(<<"n", "o", "t", "-", "a", "n", "-", "e", "m", "a", "i", "l">>)
hello == Lit(<<"h", "i">>)
Empty == Str(<<>>)

SubscribeBody(user_id, plan_id, customer_info) ==
  [NoBody EXCEPT !.user_id = user_id, !.plan_id = plan_id,
                 !.customer_info = customer_info]

ContactBody(name, email, message) ==
  [NoBody EXCEPT !.name = name, !.email = email, !.message = message]

\* Requests of the concurrent specification: a few of each kind, each
\* with the instant the server's clock shows when it arrives.
EndOfJanuary == Instant(2024, 1, 31, 23 * msPerHour + 30 * msPerMinute)
MidJune == Instant(2023, 6, 15, 12 * msPerHour + 123)

Instants == {EndOfJanuary, MidJune}

SubscribeRequests ==
  { <<SubscribeBody(Undefined, monthly, CustomerInfo(Alice, aliceMail, Undefined)),
      EndOfJanuary>>,
    <<SubscribeBody(u1, annual, CustomerInfo(Alice, aliceMail, Undefined)),
      EndOfJanuary>>,
    <<SubscribeBody(Undefined, monthly, NoCustomerInfo), EndOfJanuary>> }

ContactRequests ==
  { <<ContactBody(Alice, aliceMail, hello), MidJune>>,
    <<ContactBody(Alice, aliceMail, hello), EndOfJanuary>>,
    <<ContactBody(Alice, notAnEmail, hello), EndOfJanuary>>,
    <<ContactBody(Alice, aliceMail, Empty), EndOfJanuary>> }

RandomSuffixes == {Lit(<<"k", "3", "x", "9", "q", "0", "z", "b", "7">>)}

\* ------------------------------------------------------------------------
\* The server under concurrent requests
\* ------------------------------------------------------------------------
Init ==
  /\ variant \in {IndexJs, Part000}
  /\ tza \in TZOffsets
  /\ req = [r \in Requests |-> IdleRequest]
  /\ plans = PlanRows
  /\ subscriptions = {}
  /\ messages = {}
  /\ contact_messages = {}
  /\ uuids = 0

\* One step of the handler serving request r: the request arrives (drawn
\* from the given inputs) and its handler runs to its first await or to its
\* response, or a pending database operation ends and the handler resumes.
Serve(r, SubscribeInputs, ContactInputs) ==
  \/ \E now \in Instants : Health(r, now)
  \/ ApiRouterPlans(r)
  \/ \E o \in DbOutcomes : ApiRouterPlansReply(r, o)
  \/ ApiPlans(r)
  \/ \E o \in DbOutcomes : ApiPlansReply(r, o)
  \/ ApiRouterMessages(r)
  \/ /\ req[r].pc = "await_select"
     /\ \E o \in DbOutcomes : \E data \in ApiRouterMessagesSelected :
          ApiRouterMessagesReply(r, o, data)
  \/ /\ req[r].pc = "idle" /\ variant = IndexJs
     /\ \E in \in SubscribeInputs : ApiRouterSubscribe(r, in[1], in[2])
  \/ \E o \in DbOutcomes : ApiRouterSubscribeSubReply(r, o)
  \/ \E o \in DbOutcomes : ApiRouterSubscribeMsgReply(r, o)
  \/ /\ req[r].pc = "idle" /\ variant = Part000
     /\ \E in \in SubscribeInputs : ApiSubscribe(r, in[1], in[2])
  \/ \E o \in DbOutcomes : ApiSubscribeSubReply(r, o)
  \/ \E o \in DbOutcomes : ApiSubscribeMsgReply(r, o)
  \/ /\ req[r].pc = "idle" /\ variant = IndexJs
     /\ \E in \in ContactInputs : \E createdAt \in Instants :
          \E rnd \in RandomSuffixes :
            ApiRouterContact(r, in[1], in[2], createdAt, rnd)
  \/ \E o \in DbOutcomes : \E now \in Instants : ApiRouterContactReply(r, o, now)
  \/ /\ req[r].pc = "idle" /\ variant = Part000
     /\ \E in \in ContactInputs : ApiContact(r, in[1])
  \/ \E o \in DbOutcomes : ApiContactReply(r, o)

Next == \E r \in Requests : Serve(r, SubscribeRequests, ContactRequests)

Spec == Init /\ [][Next]_vars

\* ------------------------------------------------------------------------
\* The server answering one request, drawn from broad inputs: every day of
\* the calendar at two times of day, every shape of body, every short
\* e-mail string.
\* ------------------------------------------------------------------------
TimesOfDay == {2 * msPerHour + 15 * msPerMinute + 30 * msPerSecond + 250,
               23 * msPerHour + 30 * msPerMinute}

CalendarInstants ==
  { <<d, ms>> : d \in DayFromYear(FirstYear)..(DayFromYear(FirstYear + NumYears) - 1),
                ms \in TimesOfDay }

PlanIds == {Undefined, Empty, monthly, twoMonths, annual, weekly}

CustomerInfos ==
  {NoCustomerInfo} \cup
  { CustomerInfo(f, e, Undefined) : f \in {Undefined, Empty, Alice},
                                    e \in {Undefined, Empty, aliceMail} }

AllSubscribeBodies ==
  { SubscribeBody(u, p, c) : u \in {Undefined, u1}, p \in PlanIds, c \in CustomerInfos }

SeqSubscribeInputs ==
  ({ SubscribeBody(Undefined, p, CustomerInfo(Alice, aliceMail, Undefined)) :
       p \in {monthly, twoMonths, annual, weekly} } \X CalendarInstants)
  \cup (AllSubscribeBodies \X {EndOfJanuary})

EmailAlphabet == {CodeUnit("a"), CodeUnit("@"), CodeUnit("."), CodeUnit(" ")}
EmailStrings == UNION { [1..k -> EmailAlphabet] : k \in 0..MaxEmailLen }

\* Code units that are, or look like, white space: the controls TAB..CR,
\* NEL, the spaces of the Basic Multilingual Plane, the Mongolian vowel
\* separator, the zero-width space and joiners, the line and paragraph
\* separators, the byte order mark.
SpaceLike ==
  (9..13) \cup {32, 133, 160, 5760, 6158} \cup (8192..8205)
    \cup {8232, 8233, 8239, 8287, 8288, 12288, 65279}

\* a@b.c with one such code unit put in the local part, the domain or the tld
SpacedEmails ==
  LET a == CodeUnit("a")  at == CodeUnit("@")  dot == CodeUnit(".")
  IN  UNION { { <<a, w, at, a, dot, a>>, <<a, at, w, a, dot, a>>,
                <<a, at, a, dot, a, w>>, <<w, at, a, dot, a>> } : w \in SpaceLike }

SeqContactInputs ==
  ({ ContactBody(Alice, Str(e), hello) : e \in EmailStrings \cup SpacedEmails }
   \cup { ContactBody(n, e, m) : n \in {Undefined, Empty, Alice},
                                 e \in {Undefined, Empty, aliceMail, notAnEmail},
                                 m \in {Undefined, Empty, hello} })
  \X {EndOfJanuary}

NextSeq == Serve(1, SeqSubscribeInputs, SeqContactInputs)

SpecSeq == Init /\ [][NextSeq]_vars

\* ------------------------------------------------------------------------
\* POST /subscribe under concurrent requests: every plan (and, for
\* src/index.js, a plan_id it does not know) in two bodies that differ in
\* every other field, arriving at the same instant.
\* ------------------------------------------------------------------------
Bob == Lit(<<"B", "o", "b">>)
bobMail == Lit(<<"b", "o", "b", "@", "c", ".", "d">>)
bobPhone == Lit(<<"5", "5", "5">>)
card == Lit(<<"c", "a", "r", "d">>)

SubscribeBodies(plan_id) ==
  { SubscribeBody(Undefined, plan_id, CustomerInfo(Alice, aliceMail, Undefined)),
    [SubscribeBody(u1, plan_id, CustomerInfo(Bob, bobMail, bobPhone))
       EXCEPT !.payment_method = card] }

PairSubscribeInputs ==
  (UNION { SubscribeBodies(p) : p \in {monthly, twoMonths, annual, weekly} })
    \X Instants

\* Two requests: what a statement about two rows needs.  A subscribe handler
\* reads no table and nothing of another request.
Pair == {1, 2}

ServeSubscribe(r, SubscribeInputs) ==
  \/ /\ req[r].pc = "idle" /\ variant = IndexJs
     /\ \E in \in SubscribeInputs : ApiRouterSubscribe(r, in[1], in[2])
  \/ \E o \in DbOutcomes : ApiRouterSubscribeSubReply(r, o)
  \/ \E o \in DbOutcomes : ApiRouterSubscribeMsgReply(r, o)
  \/ /\ req[r].pc = "idle" /\ variant = Part000
     /\ \E in \in SubscribeInputs : ApiSubscribe(r, in[1], in[2])
  \/ \E o \in DbOutcomes : ApiSubscribeSubReply(r, o)
  \/ \E o \in DbOutcomes : ApiSubscribeMsgReply(r, o)

NextSubscribe == \E r \in Pair : ServeSubscribe(r, PairSubscribeInputs)

SpecSubscribe == Init /\ [][NextSubscribe]_vars

\* ========================================================================
\* Properties
\* ========================================================================
Done(r) == req[r].pc = "done"
Failed(call) == call.result \in {"error", "throw"}
AnyFailed(r) == \E i \in 1..Len(req[r].calls) : Failed(req[r].calls[i])
ValidPlans == {monthly, twoMonths, annual}

SubRowsOf(r) == {row \in subscriptions : row.req = r}
MsgRowsOf(r) == {row \in messages : row.req = r}
ContactRowsOf(r) == {row \in contact_messages : row.req = r}

\* The body lacks a non-empty plan_id, or customer_info, or a non-empty
\* fullname or email in it.
SubscribeFieldsMissing(body) ==
  \/ body.plan_id \in {Undefined, Empty}
  \/ ~body.customer_info.def
  \/ body.customer_info.fullname \in {Undefined, Empty}
  \/ body.customer_info.email \in {Undefined, Empty}

\* C1: a POST /subscribe whose body lacks a non-empty plan_id, customer_info,
\* fullname or email is answered 400 and issues no database operation, in
\* every variant.
C1_MissingFieldsRejected ==
  \A r \in Requests :
    (req[r].route = "subscribe" /\ SubscribeFieldsMissing(req[r].body))
      => /\ req[r].calls = <<>>
         /\ Done(r)
         /\ req[r].res.status = 400

\* C2: whenever a database operation of a request has failed (error value or
\* exception), the request is answered 500 with a body in which the error's
\* message does not appear.
C2_DbFailureGeneric500 ==
  \A r \in Requests :
    (Done(r) /\ AnyFailed(r))
      => /\ req[r].res.status = 500
         /\ req[r].responses = 1
         /\ req[r].res.error # DbErrorMessage
         /\ req[r].res.data = <<>>

\* C3: a POST /subscribe with valid customer fields and a plan_id outside
\* {monthly, 2months, annual} is answered 400, and no subscription row has a
\* plan_id outside that set.
C3_UnknownPlanRejected ==
  /\ \A row \in subscriptions : row.plan_id \in ValidPlans
  /\ \A r \in Requests :
       (/\ req[r].route = "subscribe"
        /\ ~SubscribeFieldsMissing(req[r].body)
        /\ req[r].body.plan_id \notin ValidPlans)
         => (Done(r) /\ req[r].res.status = 400 /\ req[r].calls = <<>>)

\* ------------------------------------------------------------------------
\* The calendar, stated on dates [Y, M, D] without day numbers
\* ------------------------------------------------------------------------
CalLeap(y) == (y % 4 = 0 /\ y % 100 # 0) \/ y % 400 = 0

CalDaysInMonth(y, m) ==
  IF m = 2 THEN (IF CalLeap(y) THEN 29 ELSE 28)
  ELSE IF m \in {4, 6, 9, 11} THEN 30
  ELSE 31

CalNextDay(d) ==
  IF d.D < CalDaysInMonth(d.Y, d.M) THEN [d EXCEPT !.D = d.D + 1]
  ELSE IF d.M < 12 THEN [d EXCEPT !.M = d.M + 1, !.D = 1]
  ELSE [d EXCEPT !.Y = d.Y + 1, !.M = 1, !.D = 1]

CalPrevDay(d) ==
  IF d.D > 1 THEN [d EXCEPT !.D = d.D - 1]
  ELSE IF d.M > 1 THEN [d EXCEPT !.M = d.M - 1, !.D = CalDaysInMonth(d.Y, d.M - 1)]
  ELSE [d EXCEPT !.Y = d.Y - 1, !.M = 12, !.D = 31]

\* Milliseconds into the day of an ISO string's time part
CalTimeOfDay(iso) ==
  iso.h * msPerHour + iso.m * msPerMinute + iso.s * msPerSecond + iso.ms

\* The server's local date and time of day of the instant an ISO string
\* (UTC) names, in a zone offset milliseconds ahead of UTC.
CalLocal(iso, offset) ==
  LET date == [Y |-> iso.Y, M |-> iso.M, D |-> iso.D]
      tod == CalTimeOfDay(iso) + offset
  IN  IF tod >= msPerDay THEN [date |-> CalNextDay(date), tod |-> tod - msPerDay]
      ELSE IF tod < 0 THEN [date |-> CalPrevDay(date), tod |-> tod + msPerDay]
      ELSE [date |-> date, tod |-> tod]

\* Day D of month (Y, M); a day the month does not have rolls over into the
\* following month.
CalRollOver(y, m, d) ==
  IF d <= CalDaysInMonth(y, m) THEN [Y |-> y, M |-> m, D |-> d]
  ELSE IF m < 12 THEN [Y |-> y, M |-> m + 1, D |-> d - CalDaysInMonth(y, m)]
  ELSE [Y |-> y + 1, M |-> 1, D |-> d - CalDaysInMonth(y, m)]

\* The date k calendar months after date d
CalAddMonths(d, k) ==
  LET idx == (d.M - 1) + k
  IN  CalRollOver(d.Y + idx \div 12, (idx % 12) + 1, d.D)

\* The date one calendar year after date d
CalAddYear(d) == CalRollOver(d.Y + 1, d.M, d.D)

CalTermEnd(plan_id, d) ==
  IF plan_id = monthly THEN CalAddMonths(d, 1)
  ELSE IF plan_id = twoMonths THEN CalAddMonths(d, 2)
  ELSE CalAddYear(d)

\* C4: for every start date and every plan in {monthly, 2months, annual} the
\* end_date written is the start date advanced by 1 month, 2 months or 1 year
\* of the server's calendar, the time of day unchanged; a day the target
\* month lacks rolls over into the following month.
C4_EndDateCalendar ==
  \A row \in subscriptions :
    row.plan_id \in ValidPlans =>
      LET start == CalLocal(row.start_date, tza)
          end == CalLocal(row.end_date, tza)
      IN  /\ end.date = CalTermEnd(row.plan_id, start.date)
          /\ end.tod = start.tod

\* A monthly subscription started on 2024-01-31 has been written, and it
\* ends on 2024-03-02.
C4_Witness ==
  \E row \in subscriptions :
    /\ row.plan_id = monthly
    /\ CalLocal(row.start_date, tza).date = [Y |-> 2024, M |-> 1, D |-> 31]
    /\ CalLocal(row.end_date, tza).date = [Y |-> 2024, M |-> 3, D |-> 2]

\* C5: every subscription row ends strictly after it starts, is "active", and
\* its end_date is determined by its plan_id and start_date: two rows equal in
\* both have equal end_date, whatever else their requests carried and in
\* whatever order they were served.
C5_SubscriptionRows ==
  \A row \in subscriptions :
    /\ IsoLess(row.start_date, row.end_date)
    /\ row.status = "active"
    /\ \A other \in subscriptions :
         (other.plan_id = row.plan_id /\ other.start_date = row.start_date)
           => other.end_date = row.end_date

\* Two requests that differ in every field but plan_id (user_id, fullname,
\* email, phone, payment_method) have written 2months rows with the same
\* start date, in the variant that takes user_id from the request.
C5_Witness ==
  \E row \in subscriptions : \E other \in subscriptions :
    /\ variant = IndexJs
    /\ row.req # other.req
    /\ row.plan_id = twoMonths /\ other.plan_id = twoMonths
    /\ row.start_date = other.start_date
    /\ row.user_id # other.user_id
    /\ req[row.req].body.customer_info.fullname # req[other.req].body.customer_info.fullname
    /\ req[row.req].body.customer_info.email # req[other.req].body.customer_info.email
    /\ req[row.req].body.customer_info.phone # req[other.req].body.customer_info.phone
    /\ req[row.req].body.payment_method # req[other.req].body.payment_method

\* C6: within a request no database operation is issued once one has failed:
\* a failed operation is the request's last.
C6_NoCallAfterFailure ==
  \A r \in Requests :
    \A i \in 1..Len(req[r].calls) :
      Failed(req[r].calls[i]) => i = Len(req[r].calls)

\* The rows a request's successful inserts wrote are in the store.
InsertedRowsKept(r) ==
  \A i \in 1..Len(req[r].calls) :
    req[r].calls[i].result = "ok" =>
      /\ req[r].calls[i].table = "subscriptions" => SubRowsOf(r) # {}
      /\ (req[r].calls[i].table = "messages" /\ req[r].route # "messages")
           => MsgRowsOf(r) # {}
      /\ req[r].calls[i].table = "contact_messages" => ContactRowsOf(r) # {}

SubscriptionOnly(r) ==
  /\ req[r].route = "subscribe" /\ Done(r)
  /\ SubRowsOf(r) # {} /\ MsgRowsOf(r) = {}

MessageOnly(r) ==
  /\ req[r].route = "subscribe" /\ Done(r)
  /\ SubRowsOf(r) = {} /\ MsgRowsOf(r) # {}

\* C7: a POST /subscribe that ends with only one of its two rows written is
\* answered 500, and a row once written stays in the store whatever happens
\* to the request afterwards.
C7_PartialOutcomeKept ==
  \A r \in Requests :
    /\ InsertedRowsKept(r)
    /\ (SubscriptionOnly(r) \/ MessageOnly(r)) => req[r].res.status = 500

\* Both partial outcomes have happened: one request ended with its
\* subscription row only, another with its message row only.
C7_Witness ==
  \E r \in Requests : \E q \in Requests :
    /\ SubscriptionOnly(r) /\ req[r].res.status = 500
    /\ MessageOnly(q) /\ req[q].res.status = 500

\* The pattern local-part @ domain . tld with no whitespace, stated on the
\* string: no whitespace, exactly one "@", something before it, and after it
\* a "." with something on both sides.
\* Whitespace is what the language of the program calls white space or a
\* line terminator.
Whitespace ==
  {9, 11, 12, 32, 160, 65279}                  \* TAB VT FF SP NBSP ZWNBSP
    \cup {5760, 8239, 8287, 12288}             \* space separators
    \cup {8192 + k : k \in 0..10}              \* U+2000 .. U+200A
    \cup {10, 13, 8232, 8233}                  \* LF CR LS PS

EmailShaped(email) ==
  LET cs == email.s
      n == Len(cs)
      ats == {i \in 1..n : cs[i] = 64}
  IN  /\ \A i \in 1..n : cs[i] \notin Whitespace
      /\ Cardinality(ats) = 1
      /\ \A a \in ats :
           /\ a > 1
           /\ \E d \in (a + 2)..(n - 1) : cs[d] = 46

ContactFieldsMissing(body) ==
  \/ body.name \in {Undefined, Empty}
  \/ body.email \in {Undefined, Empty}
  \/ body.message \in {Undefined, Empty}

\* A POST /contact lacking a field is answered 400 without an insert.
ContactMissingRejected(r) ==
  (req[r].route = "contact" /\ ContactFieldsMissing(req[r].body))
    => (req[r].calls = <<>> /\ Done(r) /\ req[r].res.status = 400)

\* The variant that checks the e-mail answers 400 without an insert when the
\* e-mail is not of the pattern.
ContactBadEmailRejected(r) ==
  (/\ variant = IndexJs
   /\ req[r].route = "contact"
   /\ ~ContactFieldsMissing(req[r].body)
   /\ ~EmailShaped(req[r].body.email))
    => (req[r].calls = <<>> /\ Done(r) /\ req[r].res.status = 400)

\* The request is a complete POST /contact with an e-mail not of the pattern,
\* served by the variant that does not check it.
ContactBadEmailUnchecked(r) ==
  /\ variant = Part000
  /\ req[r].route = "contact"
  /\ ~ContactFieldsMissing(req[r].body)
  /\ ~EmailShaped(req[r].body.email)

ContactSucceeded(r) ==
  /\ Cardinality(ContactRowsOf(r)) = 1
  /\ req[r].res.status = 200
  /\ req[r].res.success = "true"

\* C8 as stated: missing fields are rejected in every variant, a malformed
\* e-mail is rejected by the validating variant, and in the other variant it
\* leads to exactly one insert and a success response.
C8_ContactAsStated ==
  \A r \in Requests :
    /\ ContactMissingRejected(r)
    /\ ContactBadEmailRejected(r)
    /\ ContactBadEmailUnchecked(r) =>
         /\ Len(req[r].calls) = 1
         /\ Done(r) => ContactSucceeded(r)

\* C8 (amended): as C8, except that in the non-validating variant the body
\* leads to exactly one insert being issued, and to a success response when
\* that insert succeeds (to a 500 and no row when it fails).
C8_ContactAmended ==
  \A r \in Requests :
    /\ ContactMissingRejected(r)
    /\ ContactBadEmailRejected(r)
    /\ ContactBadEmailUnchecked(r) =>
         /\ Len(req[r].calls) = 1
         /\ req[r].calls[1].table = "contact_messages"
         /\ Done(r) =>
              IF req[r].calls[1].result = "ok"
              THEN ContactSucceeded(r)
              ELSE ContactRowsOf(r) = {} /\ req[r].res.status = 500

\* "not-an-email" has been accepted by the non-validating variant: its row
\* is stored and the answer is a success.
C8_Witness ==
  \E r \in Requests :
    /\ ContactBadEmailUnchecked(r)
    /\ req[r].body.email = notAnEmail
    /\ Done(r)
    /\ ContactSucceeded(r)

\* C9: every subscription row carries a user_id the server generated for its
\* request, the request's message row carries the same one, and rows of
\* different requests never share one.
C9_ServerGeneratedUserId ==
  \A row \in subscriptions :
    /\ \E n \in 1..uuids : row.user_id = RandomUUID(n)
    /\ \A msg \in MsgRowsOf(row.req) : msg.user_id = row.user_id
    /\ \A other \in subscriptions :
         other.req # row.req => other.user_id # row.user_id

\* C10: a POST /subscribe answered with success: true wrote exactly one
\* subscription row and exactly one message row, both inserts having ended
\* without error; no request is answered twice, and a request whose handler
\* has ended was answered exactly once.
C10_SuccessMeansBothRows ==
  \A r \in Requests :
    /\ req[r].responses <= 1
    /\ Done(r) <=> req[r].responses = 1
    /\ Done(r) => req[r].res.status \in {200, 400, 500}
    /\ (req[r].route = "subscribe" /\ req[r].res.success = "true") =>
         /\ Cardinality(SubRowsOf(r)) = 1
         /\ Cardinality(MsgRowsOf(r)) = 1
         /\ Len(req[r].calls) = 2
         /\ \A i \in 1..2 : req[r].calls[i].result = "ok"

\* One POST /subscribe has been answered with success while another, whose
\* subscriptions insert failed, was answered 500.
C10_Witness ==
  \E r \in Requests : \E q \in Requests :
    /\ req[r].route = "subscribe" /\ Done(r) /\ req[r].res.success = "true"
    /\ req[q].route = "subscribe" /\ Done(q) /\ req[q].res.status = 500
    /\ Failed(req[q].calls[1])

====
